---- MODULE Spec2Model ----
(***************************************************************************)
(* The shopping carts of the Melotwo drafts.                               *)
(*                                                                         *)
(*   variant "app" : src/App.tsx - React state `cart`, changed by          *)
(*                   functional updaters, no persistence.                  *)
(*   variant "fs"  : src/unnamed/part_004 - AppProvider: `currentCart` is   *)
(*                   only ever set by the Firestore snapshot listener;     *)
(*                   the handlers compute a new line list from the         *)
(*                   rendered `currentCart` and save it.                   *)
(*   variant "dom" : src/script.js - the cart is the list of .cart-row      *)
(*                   elements; the quantity is the value of a number       *)
(*                   input.                                                *)
(*                                                                         *)
(* and, beside the carts,                                                  *)
(*                                                                         *)
(*   variant "retry"     : fetchWithRetry of src/unnamed/part_004.          *)
(*   variant "backoff"   : exponentialBackoffFetch of src/src/App.tsx       *)
(*                         (the same text in unnamed/part_000, part_002).  *)
(*   variant "inspector" : AISafetyInspector of src/src/App.tsx             *)
(*                         (handleGenerate, generateImage, analyzeImage,   *)
(*                         saveArtifact; the same in unnamed/part_000).    *)
(*   variant "klaviyo"   : the newsletter form of src/src/App.tsx            *)
(*                         (handleKlaviyoSubmit).                          *)
(*                                                                         *)
(* Money is kept in integer cents.  A cart line is a record                *)
(* [id, price, quantity]; name and image are carried along untouched by    *)
(* the code ({...item}) and are left out.                                  *)
(***************************************************************************)
EXTENDS Integers, Sequences, FiniteSets, TLC

\* ------------------------------------------------------------------ bounds
\* Largest quantity a handler is allowed to produce in the model.
MaxQty == 2
\* Largest number of setDoc writes awaiting their acknowledgement.
MaxPending == 2
\* Largest number of snapshot events queued for the listener.
MaxSnaps == 2
\* Largest |delta| handed to updateCartItemQuantity (delta: number).
MaxDelta == 2
\* Largest number of handler calls of AppProvider in one session.
MaxCalls == 2
\* Largest number of writes made by another tab.
MaxOtherTab == 1
\* Largest retries / maxRetries argument of the fetch helpers.
MaxRetries == 4
\* Largest number of handleGenerate calls of the inspector.
MaxGenerate == 2
\* Largest number of saveArtifact calls not yet finished (addDoc pending or
\* the 3 s timer running).
MaxSaves == 1
\* Largest number of form submissions that pass the guard of
\* handleKlaviyoSubmit.
MaxSubmits == 3

\* --------------------------------------------------------------- catalogue
\* src/App.tsx PRODUCTS (prices in cents).
PRODUCTS ==
    { [id |-> 1, price |-> 2999],
      [id |-> 2, price |-> 4550],
      [id |-> 3, price |-> 1900] }

\* Products handed to addProductToCart of part_004 by its caller (the App
\* component with a `context` prop, which is not part of the sources).
FsProducts ==
    { [id |-> 1, price |-> 1000],
      [id |-> 2, price |-> 60000] }

\* const taxRate = 0.15, as a fraction TaxRateNum / TaxRateDen.
TaxRateNum == 15
TaxRateDen == 100
\* shipping = subtotal > 1000 ? 0 : 50   (dollars, here in cents)
FreeShippingOver == 100000
ShippingFee == 5000

\* ----------------------------------------------------------- array helpers
\* items.find((item) => item.id === id) !== undefined
FindById(items, id) == \E i \in DOMAIN items : items[i].id = id

\* items.map((item) => item.id === id ? { ...item, quantity: item.quantity + delta } : item)
MapQuantity(items, id, delta) ==
    [i \in DOMAIN items |->
        IF items[i].id = id
        THEN [items[i] EXCEPT !.quantity = items[i].quantity + delta]
        ELSE items[i]]

\* the reduce stopping after the first line
ReducePriceQuantity_HeadOnly(sum, items) ==
    IF items = <<>> THEN sum
    ELSE sum + Head(items).price * Head(items).quantity

\* items.reduce((sum, item) => sum + item.price * item.quantity, sum)
RECURSIVE ReducePriceQuantity(_, _)
ReducePriceQuantity(sum, items) ==
    IF items = <<>> THEN sum
    ELSE ReducePriceQuantity(sum + Head(items).price * Head(items).quantity, Tail(items))

\* items.reduce((sum, item) => sum + item.quantity, sum)
RECURSIVE ReduceQuantity(_, _)
ReduceQuantity(sum, items) ==
    IF items = <<>> THEN sum
    ELSE ReduceQuantity(sum + Head(items).quantity, Tail(items))

\* ------------------------------------------------------ src/App.tsx (pure)
\* addToCart without the existingItem branch
addToCart_NoMerge(prevCart, product) ==
    Append(prevCart, [id |-> product.id, price |-> product.price, quantity |-> 1])

\* addToCart with the quantity of an existing line replaced, not incremented
addToCart_Replace(prevCart, product) ==
    IF FindById(prevCart, product.id)
    THEN [i \in DOMAIN prevCart |->
            IF prevCart[i].id = product.id
            THEN [prevCart[i] EXCEPT !.quantity = 1]
            ELSE prevCart[i]]
    ELSE Append(prevCart, [id |-> product.id, price |-> product.price, quantity |-> 1])

\* setCart updater of addToCart
addToCart(prevCart, product) ==
    IF FindById(prevCart, product.id)
    THEN MapQuantity(prevCart, product.id, 1)
    ELSE Append(prevCart, [id |-> product.id, price |-> product.price, quantity |-> 1])

\* removeItem taking one off the quantity of the line
removeItem_Decrement(prevCart, productId) ==
    SelectSeq(MapQuantity(prevCart, productId, -1), LAMBDA item : item.quantity > 0)

\* setCart updater of removeItem
removeItem(prevCart, productId) ==
    SelectSeq(prevCart, LAMBDA item : item.id # productId)

\* the reduce step with acc.unshift(item) for the lines that do not match
updateQuantityStep_Unshift(acc, item, productId, delta) ==
    IF item.id = productId
    THEN IF item.quantity + delta > 0
         THEN Append(acc, [item EXCEPT !.quantity = item.quantity + delta])
         ELSE acc
    ELSE <<item>> \o acc

\* the reduce step with newQuantity >= 0 as the test
updateQuantityStep_KeepZero(acc, item, productId, delta) ==
    IF item.id = productId
    THEN IF item.quantity + delta >= 0
         THEN Append(acc, [item EXCEPT !.quantity = item.quantity + delta])
         ELSE acc
    ELSE Append(acc, item)

\* one step of the reduce in updateQuantity
updateQuantityStep(acc, item, productId, delta) ==
    IF item.id = productId
    THEN IF item.quantity + delta > 0
         THEN Append(acc, [item EXCEPT !.quantity = item.quantity + delta])
         ELSE acc
    ELSE Append(acc, item)

\* prevCart.reduce((acc, item) => ..., acc)
RECURSIVE ReduceUpdateQuantity(_, _, _, _)
ReduceUpdateQuantity(acc, items, productId, delta) ==
    IF items = <<>> THEN acc
    ELSE ReduceUpdateQuantity(updateQuantityStep(acc, Head(items), productId, delta),
                              Tail(items), productId, delta)

\* setCart updater of updateQuantity
updateQuantity(prevCart, productId, delta) ==
    ReduceUpdateQuantity(<<>>, prevCart, productId, delta)

\* const subtotal = cart.reduce((sum, item) => sum + item.price * item.quantity, 0)
AppSubtotal(c) == ReducePriceQuantity(0, c)
\* const totalItems = cart.reduce((sum, item) => sum + item.quantity, 0)
AppTotalItems(c) == ReduceQuantity(0, c)
\* const tax = subtotal * taxRate, in 1/TaxRateDen of a cent
AppTax(c) == AppSubtotal(c) * TaxRateNum
\* const total = subtotal + tax, in 1/TaxRateDen of a cent
AppTotal(c) == AppSubtotal(c) * TaxRateDen + AppTax(c)

\* ------------------------------------------- src/unnamed/part_004 (pure)
\* const defaultCart: Cart = { items: [], subtotal: 0, shipping: 0, total: 0 }
defaultCart == [items |-> <<>>, subtotal |-> 0, shipping |-> 0, total |-> 0]

\* useState<Cart | null>(null)
NULL == [null |-> TRUE]

\* const cart = currentCart || defaultCart
CartOrDefault(c) == IF c = NULL THEN defaultCart ELSE c

\* addProductToCart without the existingItem branch
addProductToCart_NoMerge(c, product) ==
    Append(c.items, [id |-> product.id, price |-> product.price, quantity |-> 1])

\* updatedItems of addProductToCart
addProductToCart(c, product) ==
    IF FindById(c.items, product.id)
    THEN MapQuantity(c.items, product.id, 1)
    ELSE Append(c.items, [id |-> product.id, price |-> product.price, quantity |-> 1])

\* updateCartItemQuantity with .filter((item) => item.quantity >= 0)
updateCartItemQuantity_KeepZero(c, productId, delta) ==
    SelectSeq(MapQuantity(c.items, productId, delta), LAMBDA item : item.quantity >= 0)

\* updatedItems of updateCartItemQuantity: map, then filter quantity > 0
updateCartItemQuantity(c, productId, delta) ==
    SelectSeq(MapQuantity(c.items, productId, delta), LAMBDA item : item.quantity > 0)

\* removeProductFromCart taking one off the quantity
removeProductFromCart_Decrement(c, productId) ==
    SelectSeq(MapQuantity(c.items, productId, -1), LAMBDA item : item.quantity > 0)

\* updatedItems of removeProductFromCart
removeProductFromCart(c, productId) ==
    SelectSeq(c.items, LAMBDA item : item.id # productId)

\* const newCart: Cart = { ...defaultCart, items: updatedItems }
NewCart(updatedItems) == [defaultCart EXCEPT !.items = updatedItems]

\* a document of cart/current: absent, or { cart: Cart }
NoDoc == [exists |-> FALSE, cart |-> defaultCart]
CartDoc(c) == [exists |-> TRUE, cart |-> c]

\* setDoc(ref, data, { merge: true }) with every field being an array
\* field: the lines of both documents
SetDocMerge_ArrayUnion(old, data) ==
    [exists |-> TRUE,
     cart |-> [data.cart EXCEPT !.items = old.cart.items \o data.cart.items]]

\* setDoc(ref, { cart: newCart }, { merge: true }): the fields of data
\* replace those of the document, an array field (items) as a whole, and a
\* field that data does not name would stay; newCart names every field of
\* the cart map
SetDocMerge(old, data) ==
    [exists |-> TRUE,
     cart |-> [items |-> data.cart.items,
               subtotal |-> data.cart.subtotal,
               shipping |-> data.cart.shipping,
               total |-> data.cart.total]]

\* saveCartToFirestore calls setDoc once for a write: there is no loop around
\* the await and no retry helper
SetDocAttempts == 1

\* x || d on a number: 0 is falsy
OrElse(x, d) == IF x = 0 THEN d ELSE x

\* fetchedCart without a look at the document
FetchedCart_Default(docSnap) == defaultCart

\* const fetchedCart = data && data.cart ? data.cart : defaultCart
FetchedCart(docSnap) == IF docSnap.exists THEN docSnap.cart ELSE defaultCart

\* validatedItems with quantity: 1 for every line
ValidatedItems_QuantityOne(fetchedCart) ==
    [i \in DOMAIN fetchedCart.items |->
        [id |-> OrElse(fetchedCart.items[i].id, 0),
         price |-> OrElse(fetchedCart.items[i].price, 0),
         quantity |-> 1]]

\* const validatedItems = (fetchedCart.items || []).map(...)
ValidatedItems(fetchedCart) ==
    [i \in DOMAIN fetchedCart.items |->
        [id |-> OrElse(fetchedCart.items[i].id, 0),
         price |-> OrElse(fetchedCart.items[i].price, 0),
         quantity |-> OrElse(fetchedCart.items[i].quantity, 0)]]

\* shipping without the free-shipping rule
Shipping_Flat(subtotal) == ShippingFee

\* const shipping = subtotal > 1000 ? 0 : 50
Shipping(subtotal) == IF subtotal > FreeShippingOver THEN 0 ELSE ShippingFee

\* the Cart the snapshot callback hands to setCurrentCart
SnapshotCart(docSnap) ==
    LET validatedItems == ValidatedItems(FetchedCart(docSnap))
        subtotal == ReducePriceQuantity(0, validatedItems)
        shipping == Shipping(subtotal)
    IN  [items |-> validatedItems, subtotal |-> subtotal,
         shipping |-> shipping, total |-> subtotal + shipping]

\* ----------------------------------------------------- src/script.js (pure)
\* The shop items of the page (its HTML is not part of the sources): title and
\* price in cents.
ShopItems ==
    { [title |-> 1, price |-> 1299],
      [title |-> 2, price |-> 999] }

\* The value of a .cart-quantity-input (type="number") is a decimal number or
\* the empty string; numbers are kept in tenths (15 is "1.5").
EmptyText == [text |-> "empty", tenths |-> 0]
NumberText(t) == [text |-> "number", tenths |-> t]

\* what can be typed into the input: "", and -1, -0.5, 0, 0.5, 1, ... MaxQty
TypedTexts == {EmptyText} \cup {NumberText(5 * k) : k \in (-2) .. (2 * MaxQty)}

\* Number(value), in tenths: Number("") is 0
ToNumber(v) == IF v.text = "empty" THEN 0 ELSE v.tenths

\* parseInt(value): the integer part, in units (never called on "")
ParseInt(v) == IF v.tenths >= 0 THEN v.tenths \div 10 ELSE -((-v.tenths) \div 10)

\* quantityChanged: if (isNaN(input.value) || input.value <= 0) input.value = 1
quantityChanged(typed) ==
    IF ToNumber(typed) <= 0 THEN NumberText(10) ELSE typed

\* the loop of addItemToCart: the index of the row with this title, or 0
RowOf(rows_, title) ==
    IF \E i \in DOMAIN rows_ : rows_[i].title = title
    THEN CHOOSE i \in DOMAIN rows_ :
            /\ rows_[i].title = title
            /\ \A j \in 1 .. (i - 1) : rows_[j].title # title
    ELSE 0

\* addItemToCart(title, price, imageSrc)
addItemToCart(rows_, item) ==
    LET i == RowOf(rows_, item.title)
    IN  IF i # 0
        THEN [rows_ EXCEPT ![i].value = NumberText(10 * (ParseInt(rows_[i].value) + 1))]
        ELSE Append(rows_, [title |-> item.title, price |-> item.price,
                           value |-> NumberText(10)])

\* the loop of updateCartTotal: total += price * quantity, in tenths of a cent
RECURSIVE SumRows(_, _)
SumRows(total, rows_) ==
    IF rows_ = <<>> THEN total
    ELSE SumRows(total + Head(rows_).price * ToNumber(Head(rows_).value), Tail(rows_))

\* updateCartTotal: the sum of price * quantity, rounded to cents
\* (Math.round(total * 100) / 100)
updateCartTotal(rows_) == (SumRows(0, rows_) + 5) \div 10

\* ------------------------------------------------------------------- state
VARIABLES
    variant,          \* which draft runs: "app", "fs" or "dom"
    \* src/App.tsx
    cart,             \* useState<CartItem[]>([])
    purchaseMessage,  \* useState<string | null>(null)
    \* src/unnamed/part_004, AppProvider
    db,               \* useState<Firestore | null>(null): TRUE when set
    userId,           \* useState<string | null>(null): "null", "uid" (signed
                      \* in) or "uuid" (crypto.randomUUID() placeholder)
    isAuthReady,      \* useState(false)
    currentCart,      \* useState<Cart | null>(null)
    message,          \* useState<string | null>(null)
    success,          \* useState(false)
    authPc,           \* the auth effect: "mount", "waitAuth" or "done"
    listener,         \* the cart effect: "idle" (not run with isAuthReady),
                      \* "listening", "errored" or "none" (nothing subscribed)
    \* Firestore, as seen through setDoc / onSnapshot
    stored,           \* the server's cart/current document
    pending,          \* setDoc writes not yet acknowledged, oldest first
    snaps,            \* snapshot events not yet delivered, oldest first
    \* src/script.js
    rows,             \* the .cart-row elements of .cart-items: title, price, value
    totalPrice,       \* the text of .cart-total-price, in cents
    customMessage,    \* the title of the message box shown last: "none",
                      \* "itemAdded" or "purchaseComplete"
    \* bookkeeping for the properties
    lastOp,           \* the handler called last: "none", "add", "update",
                      \* "remove" or "checkout"
    saveState,        \* what became of the save of the last handler call
    burst,            \* [id, k]: the handler calls so far are k addItem calls
                      \* of product id and nothing else; k = -1 otherwise
    calls,            \* the number of handler calls of AppProvider so far
    rejected,         \* a setDoc write of this session was rejected
    otherTab,         \* the number of writes another tab has made
    scenario,         \* [id, n, m]: the handler calls so far are n addItem calls
                      \* of product id followed by m changeQuantity(id, -1)
                      \* calls, each made on the cart the one before left on
                      \* screen; n = -1 otherwise
    overlap,          \* a save was issued while an earlier one was not yet
                      \* acknowledged
    \* fetchWithRetry / exponentialBackoffFetch: one call
    fetchPc,          \* "idle" (not called), "fetching" (await fetch),
                      \* "waiting" (await setTimeout), "returned" or "threw"
    loopI,            \* let i of the for loop
    retries,          \* the argument retries / maxRetries
    attempts,         \* the number of fetch calls made
    delay,            \* const delay, in milliseconds (0 before the first)
    waited,           \* the number of setTimeout waits started
    lastError,        \* let lastError: "initial", "http", "api" or "network"
    response,         \* the status of the response returned, 0 if none
    thrown,           \* "none", "attempt" (the rejection of the last fetch is
                      \* rethrown), "serverError" (the Error of the status
                      \* test is rethrown) or "afterRetries" (the throw after
                      \* the loop)
    \* AISafetyInspector
    isGenerating,     \* useState(false)
    isAnalyzing,      \* useState(false)
    currentImageUrl,  \* useState(''): "" or "url"
    currentAnalysis,  \* useState(''): "", "analyzing", "text", "noText", "error"
    saveMessage,      \* useState(''): "", "missing", "saving", "saved", "failed"
    generating,       \* generateImage awaits its request
    analyses,         \* the analyzeImage calls awaiting their request, oldest
                      \* first: [data, call], data "undefined" or "base64"
    saving,           \* the number of saveArtifact calls awaiting addDoc
    saveTimers,       \* the number of 3 s timers of saveArtifact not yet fired
    generateCalls,    \* the number of handleGenerate calls so far
    \* the newsletter form
    email,            \* useState(''): "" or "typed"
    klaviyoStatus,    \* useState('idle'): "idle", "loading", "success", "error"
    submissions,      \* the number of handleKlaviyoSubmit calls awaiting the
                      \* 1.5 s mock call
    resetTimers,      \* the number of 5 s reset timers not yet fired
    submits           \* the number of submissions that passed the guard

appVars == <<cart, purchaseMessage>>
authVars == <<db, userId, isAuthReady, authPc>>
uiVars == <<message, success>>
storeVars == <<stored, pending, snaps>>
fsVars == <<authVars, currentCart, uiVars, listener, storeVars>>
histVars == <<lastOp, saveState, burst, calls, rejected, otherTab, scenario, overlap>>
domVars == <<rows, totalPrice, customMessage>>
netVars == <<fetchPc, loopI, retries, attempts, delay, waited, lastError, response, thrown>>
aiVars == <<isGenerating, isAnalyzing, currentImageUrl, currentAnalysis, saveMessage,
            generating, analyses, saving, saveTimers, generateCalls>>
klVars == <<email, klaviyoStatus, submissions, resetTimers, submits>>
sideVars == <<netVars, aiVars, klVars>>
cartVars == <<appVars, fsVars, domVars, histVars>>
vars == <<variant, appVars, fsVars, domVars, histVars, sideVars>>

NoBurst == [id |-> 0, k |-> 0]
Broken == [id |-> 0, k |-> -1]
BurstAdd(id) ==
    IF burst = NoBurst THEN [id |-> id, k |-> 1]
    ELSE IF burst.id = id /\ burst.k > 0 THEN [id |-> id, k |-> burst.k + 1]
    ELSE Broken

NoScenario == [id |-> 0, n |-> 0, m |-> 0]
BrokenScenario == [id |-> 0, n |-> -1, m |-> 0]
ScenarioAdd(id, inTurn) ==
    IF inTurn /\ scenario = NoScenario THEN [id |-> id, n |-> 1, m |-> 0]
    ELSE IF inTurn /\ scenario.id = id /\ scenario.n >= 1 /\ scenario.m = 0
    THEN [scenario EXCEPT !.n = scenario.n + 1]
    ELSE BrokenScenario
ScenarioChange(id, delta, inTurn) ==
    IF inTurn /\ delta = -1 /\ scenario.id = id /\ scenario.n >= 1
       /\ scenario.m < scenario.n
    THEN [scenario EXCEPT !.m = scenario.m + 1]
    ELSE BrokenScenario

Init ==
    /\ variant \in {"app", "fs", "dom", "retry", "backoff", "inspector", "klaviyo"}
    /\ cart = <<>>
    /\ purchaseMessage = "null"
    /\ db = FALSE
    /\ userId = "null"
    /\ isAuthReady = FALSE
    /\ currentCart = NULL
    /\ message = "null"
    /\ success = FALSE
    /\ authPc = "mount"
    /\ listener = "idle"
    /\ stored = NoDoc
    /\ pending = <<>>
    /\ snaps = <<>>
    /\ rows = <<>>
    /\ totalPrice = 0
    /\ customMessage = "none"
    /\ lastOp = "none"
    /\ saveState = "none"
    /\ burst = NoBurst
    /\ calls = 0
    /\ rejected = FALSE
    /\ otherTab = 0
    /\ scenario = NoScenario
    /\ overlap = FALSE
    /\ fetchPc = "idle"
    /\ loopI = 0
    /\ retries = 0
    /\ attempts = 0
    /\ delay = 0
    /\ waited = 0
    /\ lastError = "initial"
    /\ response = 0
    /\ thrown = "none"
    /\ isGenerating = FALSE
    /\ isAnalyzing = FALSE
    /\ currentImageUrl = ""
    /\ currentAnalysis = ""
    /\ saveMessage = ""
    /\ generating = FALSE
    /\ analyses = <<>>
    /\ saving = 0
    /\ saveTimers = 0
    /\ generateCalls = 0
    /\ email = ""
    /\ klaviyoStatus = "idle"
    /\ submissions = 0
    /\ resetTimers = 0
    /\ submits = 0

\* ------------------------------------------------------ src/App.tsx actions
\* the ids a handler can be called with
ProductIds == {p.id : p \in PRODUCTS}

AddToCartOf(product) ==
    /\ variant = "app"
    /\ \A i \in DOMAIN cart : cart[i].id = product.id => cart[i].quantity < MaxQty
    /\ cart' = addToCart(cart, product)
    /\ purchaseMessage' = "null"
    /\ lastOp' = "add"
    /\ burst' = BurstAdd(product.id)
    /\ scenario' = ScenarioAdd(product.id, TRUE)
    /\ UNCHANGED <<variant, sideVars, fsVars, domVars, saveState, calls, rejected, otherTab, overlap>>

OnAddToCart == \E product \in PRODUCTS : AddToCartOf(product)

RemoveItemOf(productId) ==
    /\ variant = "app"
    /\ cart' = removeItem(cart, productId)
    /\ lastOp' = "remove"
    /\ burst' = Broken
    /\ scenario' = BrokenScenario
    /\ UNCHANGED <<variant, sideVars, purchaseMessage, fsVars, domVars, saveState, calls, rejected, otherTab, overlap>>

OnRemoveItem == \E productId \in ProductIds : RemoveItemOf(productId)

UpdateQuantityOf(productId, delta) ==
    /\ variant = "app"
    /\ \A i \in DOMAIN cart : cart[i].id = productId => cart[i].quantity + delta <= MaxQty
    /\ cart' = updateQuantity(cart, productId, delta)
    /\ lastOp' = "update"
    /\ burst' = Broken
    /\ scenario' = ScenarioChange(productId, delta, TRUE)
    /\ UNCHANGED <<variant, sideVars, purchaseMessage, fsVars, domVars, saveState, calls, rejected, otherTab, overlap>>

\* delta: 1 | -1
OnUpdateQuantity ==
    \E productId \in ProductIds, delta \in {1, -1} : UpdateQuantityOf(productId, delta)

OnHandlePurchase ==
    /\ variant = "app"
    /\ IF Len(cart) = 0
       THEN /\ purchaseMessage' = "empty"
            /\ UNCHANGED cart
       ELSE /\ purchaseMessage' = "success"
            /\ cart' = <<>>
    /\ lastOp' = "checkout"
    /\ burst' = Broken
    /\ scenario' = BrokenScenario
    /\ UNCHANGED <<variant, sideVars, fsVars, domVars, saveState, calls, rejected, otherTab, overlap>>

\* --------------------------------------------- src/unnamed/part_004 actions
\* useEffect 1: initialise Firebase and register onAuthStateChanged
AuthEffect ==
    /\ variant = "fs"
    /\ authPc = "mount"
    /\ \E path \in {"configMissing", "initThrows", "ok"} :
        CASE path = "configMissing" ->
                /\ isAuthReady' = TRUE
                /\ authPc' = "done"
                /\ UNCHANGED <<db, userId>>
          [] path = "initThrows" ->
                /\ userId' = "uuid"
                /\ isAuthReady' = TRUE
                /\ authPc' = "done"
                /\ UNCHANGED db
          [] path = "ok" ->
                /\ db' = TRUE
                /\ authPc' = "waitAuth"
                /\ UNCHANGED <<userId, isAuthReady>>
    /\ UNCHANGED <<variant, sideVars, appVars, domVars, currentCart, uiVars, listener, storeVars, histVars>>

\* the onAuthStateChanged callback: a user, or a sign-in that succeeds ("uid")
\* or fails ("uuid": the placeholder is no authenticated user, so Firestore
\* answers its listener with an error and rejects its writes)
AuthStateChanged ==
    /\ variant = "fs"
    /\ authPc = "waitAuth"
    /\ userId' \in {"uid", "uuid"}
    /\ isAuthReady' = TRUE
    /\ authPc' = "done"
    /\ UNCHANGED <<variant, sideVars, appVars, domVars, db, currentCart, uiVars, listener, storeVars, histVars>>

\* the document the client shows: the latest unacknowledged write, else the
\* server's document
View(st, pend) == IF pend = <<>> THEN st ELSE CartDoc(pend[Len(pend)])

\* useEffect 2: subscribe to cart/current, or fall back to the empty cart
CartListenerEffect ==
    /\ variant = "fs"
    /\ isAuthReady
    /\ listener = "idle"
    /\ IF db /\ userId # "null"
       THEN /\ listener' = "listening"
            /\ snaps' = IF userId = "uid" THEN <<View(stored, pending)>> ELSE <<>>
            /\ UNCHANGED currentCart
       ELSE IF userId = "null"
       THEN /\ listener' = "none"
            /\ currentCart' = defaultCart
            /\ UNCHANGED snaps
       ELSE /\ listener' = "none"
            /\ UNCHANGED <<currentCart, snaps>>
    /\ UNCHANGED <<variant, sideVars, appVars, domVars, authVars, uiVars, stored, pending, histVars>>

\* onSnapshot's next callback
OnSnapshot ==
    /\ variant = "fs"
    /\ listener = "listening"
    /\ snaps # <<>>
    /\ currentCart' = SnapshotCart(Head(snaps))
    /\ snaps' = Tail(snaps)
    /\ UNCHANGED <<variant, sideVars, appVars, domVars, authVars, uiVars, listener, stored, pending, histVars>>

\* onSnapshot's error callback; the listener receives nothing afterwards
OnSnapshotError ==
    /\ variant = "fs"
    /\ listener = "listening"
    /\ currentCart' = defaultCart
    /\ listener' = "errored"
    /\ snaps' = <<>>
    /\ UNCHANGED <<variant, sideVars, appVars, domVars, authVars, uiVars, stored, pending, histVars>>

\* the handlers exist once AppProvider renders <App>
Rendered == isAuthReady /\ currentCart # NULL

\* the cart on screen is the one the latest snapshot event carries
InTurn == snaps = <<>>

\* a handler call, counted
Called == calls < MaxCalls /\ calls' = calls + 1

\* room for one more write and its snapshot event
CanSave == Len(pending) < MaxPending /\ Len(snaps) < MaxSnaps

\* saveCartToFirestore without the setDoc call
SaveCartToFirestore_Skip(newCart) ==
    /\ saveState' = "unavailable"
    /\ UNCHANGED <<storeVars, overlap>>

\* saveCartToFirestore(newCart), up to its await
SaveCartToFirestore(newCart) ==
    IF db /\ userId # "null"
    THEN /\ pending' = Append(pending, newCart)
         /\ snaps' = IF listener = "listening" /\ CartDoc(newCart) # View(stored, pending)
                     THEN Append(snaps, CartDoc(newCart))
                     ELSE snaps
         /\ saveState' = "pending"
         /\ overlap' = (overlap \/ pending # <<>>)
         /\ UNCHANGED stored
    ELSE /\ saveState' = "unavailable"
         /\ UNCHANGED <<storeVars, overlap>>

AddProductToCartOf(product) ==
    /\ variant = "fs"
    /\ Rendered
    /\ Called
    /\ CanSave
    /\ LET c == CartOrDefault(currentCart)
       IN  /\ \A i \in DOMAIN c.items :
                 c.items[i].id = product.id => c.items[i].quantity < MaxQty
           /\ SaveCartToFirestore(NewCart(addProductToCart(c, product)))
    /\ message' = "added"
    /\ success' = TRUE
    /\ lastOp' = "add"
    /\ burst' = BurstAdd(product.id)
    /\ scenario' = ScenarioAdd(product.id, InTurn)
    /\ UNCHANGED <<variant, sideVars, appVars, domVars, authVars, currentCart, listener, rejected, otherTab>>

OnAddProductToCart == \E product \in FsProducts : AddProductToCartOf(product)

FsProductIds == {p.id : p \in FsProducts}
Deltas == ((-MaxDelta) .. MaxDelta) \ {0}

UpdateCartItemQuantityOf(productId, delta) ==
    /\ variant = "fs"
    /\ Rendered
    /\ Called
    /\ CanSave
    /\ LET c == CartOrDefault(currentCart)
       IN  /\ \A i \in DOMAIN c.items :
                 c.items[i].id = productId => c.items[i].quantity + delta <= MaxQty
           /\ SaveCartToFirestore(NewCart(updateCartItemQuantity(c, productId, delta)))
    /\ lastOp' = "update"
    /\ burst' = Broken
    /\ scenario' = ScenarioChange(productId, delta, InTurn)
    /\ UNCHANGED <<variant, sideVars, appVars, domVars, authVars, currentCart, uiVars, listener, rejected, otherTab>>

OnUpdateCartItemQuantity ==
    \E productId \in FsProductIds, delta \in Deltas :
        UpdateCartItemQuantityOf(productId, delta)

RemoveProductFromCartOf(productId) ==
    /\ variant = "fs"
    /\ Rendered
    /\ Called
    /\ CanSave
    /\ LET c == CartOrDefault(currentCart)
       IN  SaveCartToFirestore(NewCart(removeProductFromCart(c, productId)))
    /\ message' = "removed"
    /\ success' = TRUE
    /\ lastOp' = "remove"
    /\ burst' = Broken
    /\ scenario' = BrokenScenario
    /\ UNCHANGED <<variant, sideVars, appVars, domVars, authVars, currentCart, listener, rejected, otherTab>>

OnRemoveProductFromCart ==
    \E productId \in FsProductIds : RemoveProductFromCartOf(productId)

OnHandleCheckout ==
    /\ variant = "fs"
    /\ Rendered
    /\ Called
    /\ LET c == CartOrDefault(currentCart)
       IN  IF Len(c.items) = 0
           THEN /\ message' = "empty"
                /\ success' = FALSE
                /\ UNCHANGED <<storeVars, saveState, overlap>>
           ELSE /\ CanSave
                /\ SaveCartToFirestore(NewCart(<<>>))
                /\ message' = "checkout"
                /\ success' = TRUE
    /\ lastOp' = "checkout"
    /\ burst' = Broken
    /\ scenario' = BrokenScenario
    /\ UNCHANGED <<variant, sideVars, appVars, domVars, authVars, currentCart, listener, rejected, otherTab>>

\* await setDoc(...) resolves: the server holds the oldest pending write
SetDocAck ==
    /\ variant = "fs"
    /\ userId = "uid"
    /\ pending # <<>>
    /\ stored' = SetDocMerge(stored, CartDoc(Head(pending)))
    /\ pending' = Tail(pending)
    /\ saveState' = IF Len(pending) = 1 THEN "acked" ELSE saveState
    /\ UNCHANGED <<variant, sideVars, appVars, domVars, authVars, currentCart, uiVars, listener, snaps,
                   lastOp, burst, calls, rejected, otherTab, scenario, overlap>>

\* await setDoc(...) rejects: the write is dropped, the catch block reports it
SetDocReject ==
    /\ variant = "fs"
    /\ pending # <<>>
    /\ Len(snaps) < MaxSnaps
    /\ pending' = Tail(pending)
    /\ snaps' = IF listener = "listening"
                   /\ View(stored, pending') # View(stored, pending)
                THEN Append(snaps, View(stored, pending'))
                ELSE snaps
    /\ message' = "saveError"
    /\ success' = FALSE
    /\ saveState' = IF Len(pending) = 1 THEN "failed" ELSE saveState
    /\ rejected' = TRUE
    /\ UNCHANGED <<variant, sideVars, appVars, domVars, authVars, currentCart, listener, stored,
                   lastOp, burst, calls, otherTab, scenario, overlap>>

\* another tab of the same user runs one of the handlers on the stored cart
OtherTabWrite ==
    /\ variant = "fs"
    /\ db /\ userId = "uid"
    /\ otherTab < MaxOtherTab
    /\ Len(snaps) < MaxSnaps
    /\ \E product \in FsProducts, op \in {"add", "dec", "remove", "clear"} :
        LET c == SnapshotCart(stored)
            updatedItems ==
                CASE op = "add" -> addProductToCart(c, product)
                  [] op = "dec" -> updateCartItemQuantity(c, product.id, -1)
                  [] op = "remove" -> removeProductFromCart(c, product.id)
                  [] op = "clear" -> <<>>
        IN  /\ \A i \in DOMAIN updatedItems : updatedItems[i].quantity <= MaxQty
            /\ CartDoc(NewCart(updatedItems)) # stored
            /\ stored' = CartDoc(NewCart(updatedItems))
    /\ snaps' = IF listener = "listening" /\ pending = <<>>
                THEN Append(snaps, stored')
                ELSE snaps
    /\ otherTab' = otherTab + 1
    /\ UNCHANGED <<variant, sideVars, appVars, domVars, authVars, currentCart, uiVars, listener, pending,
                   lastOp, saveState, burst, calls, rejected, scenario, overlap>>

\* ---------------------------------------------------- src/script.js actions
AddToCartClickedOf(item) ==
    /\ variant = "dom"
    /\ \A i \in DOMAIN rows :
          rows[i].title = item.title => ParseInt(rows[i].value) < MaxQty
    /\ rows' = addItemToCart(rows, item)
    /\ totalPrice' = updateCartTotal(rows')
    /\ customMessage' = "itemAdded"
    /\ lastOp' = "add"
    /\ burst' = BurstAdd(item.title)
    /\ scenario' = ScenarioAdd(item.title, TRUE)
    /\ UNCHANGED <<variant, sideVars, appVars, fsVars, saveState, calls, rejected, otherTab, overlap>>

OnAddToCartClicked == \E item \in ShopItems : AddToCartClickedOf(item)

\* removeCartItem: the REMOVE button of row i
OnRemoveCartItem ==
    /\ variant = "dom"
    /\ \E i \in DOMAIN rows :
          rows' = [j \in 1 .. (Len(rows) - 1) |-> IF j < i THEN rows[j] ELSE rows[j + 1]]
    /\ totalPrice' = updateCartTotal(rows')
    /\ lastOp' = "remove"
    /\ burst' = Broken
    /\ scenario' = BrokenScenario
    /\ UNCHANGED <<variant, sideVars, appVars, fsVars, customMessage, saveState, calls, rejected, otherTab, overlap>>

\* the change event of the quantity input of row i, after `typed` was entered
QuantityChangedOf(i, typed) ==
    /\ variant = "dom"
    /\ i \in DOMAIN rows
    /\ rows' = [rows EXCEPT ![i].value = quantityChanged(typed)]
    /\ totalPrice' = updateCartTotal(rows')
    /\ lastOp' = "update"
    /\ burst' = Broken
    /\ scenario' = BrokenScenario
    /\ UNCHANGED <<variant, sideVars, appVars, fsVars, customMessage, saveState, calls, rejected, otherTab, overlap>>

OnQuantityChanged ==
    \E i \in DOMAIN rows, typed \in TypedTexts : QuantityChangedOf(i, typed)

\* purchaseClicked: thank, remove every row, update the total
OnPurchaseClicked ==
    /\ variant = "dom"
    /\ rows' = <<>>
    /\ totalPrice' = updateCartTotal(rows')
    /\ customMessage' = "purchaseComplete"
    /\ lastOp' = "checkout"
    /\ burst' = Broken
    /\ scenario' = BrokenScenario
    /\ UNCHANGED <<variant, sideVars, appVars, fsVars, saveState, calls, rejected, otherTab, overlap>>

\* ------------------------------------------------ the fetch helpers (pure)
\* the statuses a response can have, and the outcomes of one fetch call: a
\* response, or a rejected promise (network error)
Statuses == {200, 404, 429, 503}
FetchOutcomes ==
    {[kind |-> "response", status |-> st] : st \in Statuses}
        \cup {[kind |-> "error", status |-> 0]}

\* response.ok for every status below 500
Ok_Below500(status) == status \in 200 .. 499

\* response.ok
Ok(status) == status \in 200 .. 299

\* Math.random() * 1000, in milliseconds
JitterMs == {0, 500, 999}

\* a delay growing by one second per attempt
BackoffMs_Linear(n) == (n + 1) * 1000

\* Math.pow(2, i) * 1000
BackoffMs(n) == (2 ^ n) * 1000

\* the retries / maxRetries a call is made with
RetriesArgs == 0 .. MaxRetries

\* --------------------------------- src/unnamed/part_004 fetchWithRetry
\* the call, up to the first await
CallFetchWithRetryOf(r) ==
    /\ variant = "retry"
    /\ fetchPc = "idle"
    /\ retries' = r
    /\ IF 0 < r
       THEN fetchPc' = "fetching" /\ UNCHANGED thrown
       ELSE fetchPc' = "threw" /\ thrown' = "afterRetries"
    /\ UNCHANGED <<variant, cartVars, aiVars, klVars,
                   loopI, attempts, delay, waited, lastError, response>>

CallFetchWithRetry == \E r \in RetriesArgs : CallFetchWithRetryOf(r)

\* the status test taking every status from 400 on
FwrCaught_ClientErrors(outcome) ==
    \/ outcome.kind = "error"
    \/ outcome.status >= 400 /\ loopI < retries - 1

\* the status test without `i < retries - 1`
FwrCaught_EveryServerError(outcome) ==
    \/ outcome.kind = "error"
    \/ outcome.status >= 500

\* `if (response.status >= 500 && i < retries - 1) throw`, or fetch rejected
FwrCaught(outcome) ==
    \/ outcome.kind = "error"
    \/ outcome.status >= 500 /\ loopI < retries - 1

\* await fetch(url, options) settles: the rest of the loop body up to the
\* next await, the return or the throw
FetchWithRetryAttemptOf(outcome) ==
    /\ variant = "retry"
    /\ fetchPc = "fetching"
    /\ attempts' = attempts + 1
    /\ IF ~FwrCaught(outcome)
       THEN /\ fetchPc' = "returned"
            /\ response' = outcome.status
            /\ UNCHANGED <<delay, waited, thrown>>
       ELSE IF loopI < retries - 1
       THEN /\ delay' = BackoffMs(loopI)
            /\ waited' = waited + 1
            /\ fetchPc' = "waiting"
            /\ UNCHANGED <<response, thrown>>
       ELSE /\ fetchPc' = "threw"
            /\ thrown' = (IF outcome.kind = "error" THEN "attempt" ELSE "serverError")
            /\ UNCHANGED <<delay, waited, response>>
    /\ UNCHANGED <<variant, cartVars, aiVars, klVars, loopI, retries, lastError>>

FetchWithRetryAttempt == \E outcome \in FetchOutcomes : FetchWithRetryAttemptOf(outcome)

\* the setTimeout of the catch block fires: i++ and the next attempt
FetchWithRetryTimer ==
    /\ variant = "retry"
    /\ fetchPc = "waiting"
    /\ loopI' = loopI + 1
    /\ IF loopI + 1 < retries
       THEN fetchPc' = "fetching" /\ UNCHANGED thrown
       ELSE fetchPc' = "threw" /\ thrown' = "afterRetries"
    /\ UNCHANGED <<variant, cartVars, aiVars, klVars,
                   retries, attempts, delay, waited, lastError, response>>

\* ------------------------------ src/src/App.tsx exponentialBackoffFetch
CallExponentialBackoffFetchOf(maxRetries) ==
    /\ variant = "backoff"
    /\ fetchPc = "idle"
    /\ retries' = maxRetries
    /\ IF 0 < maxRetries
       THEN fetchPc' = "fetching" /\ UNCHANGED thrown
       ELSE fetchPc' = "threw" /\ thrown' = "afterRetries"
    /\ UNCHANGED <<variant, cartVars, aiVars, klVars,
                   loopI, attempts, delay, waited, lastError, response>>

CallExponentialBackoffFetch ==
    \E maxRetries \in RetriesArgs : CallExponentialBackoffFetchOf(maxRetries)

\* the error the try block throws for an outcome that is no ok response
ErrorOf(outcome) ==
    IF outcome.kind = "error" THEN "network"
    ELSE IF outcome.status = 429 \/ outcome.status >= 500 THEN "http"
    ELSE "api"

\* await fetch(url, options) settles: return, or the catch block with its
\* delay; after the last attempt the loop ends and the function throws
ExponentialBackoffAttemptOf(outcome, jitter) ==
    /\ variant = "backoff"
    /\ fetchPc = "fetching"
    /\ attempts' = attempts + 1
    /\ IF outcome.kind = "response" /\ Ok(outcome.status)
       THEN /\ fetchPc' = "returned"
            /\ response' = outcome.status
            /\ UNCHANGED <<loopI, delay, waited, lastError, thrown>>
       ELSE /\ lastError' = ErrorOf(outcome)
            /\ delay' = BackoffMs(loopI) + jitter
            /\ IF loopI < retries - 1
               THEN /\ waited' = waited + 1
                    /\ fetchPc' = "waiting"
                    /\ UNCHANGED <<loopI, thrown>>
               ELSE /\ loopI' = loopI + 1
                    /\ fetchPc' = "threw"
                    /\ thrown' = "afterRetries"
                    /\ UNCHANGED waited
            /\ UNCHANGED response
    /\ UNCHANGED <<variant, cartVars, aiVars, klVars, retries>>

ExponentialBackoffAttempt ==
    \E outcome \in FetchOutcomes, jitter \in JitterMs :
        ExponentialBackoffAttemptOf(outcome, jitter)

\* the setTimeout of the catch block fires: i++ and the next attempt
ExponentialBackoffTimer ==
    /\ variant = "backoff"
    /\ fetchPc = "waiting"
    /\ loopI' = loopI + 1
    /\ fetchPc' = "fetching"
    /\ UNCHANGED <<variant, cartVars, aiVars, klVars,
                   retries, attempts, delay, waited, lastError, response, thrown>>

\* ------------------------------------- src/src/App.tsx AISafetyInspector
\* const isReady = !isGenerating && !isAnalyzing
isReady == ~isGenerating /\ ~isAnalyzing

\* what the awaited request of generateImage comes to: image data, a result
\* without data, or exponentialBackoffFetch / response.json() throwing
GenerateOutcomes == {"data", "noData", "throws"}
\* the same for analyzeImage
AnalyzeOutcomes == {"text", "noText", "throws"}

\* handleGenerate (the button is disabled unless isReady and the prompt is
\* not blank), up to the await in generateImage: generateImage calls
\* setLoading(true) and setImageUrl(''), and setImageUrl is the callback of
\* handleGenerate, which calls analyzeImage with ''.split(',')[1]
OnHandleGenerate ==
    /\ variant = "inspector"
    /\ isReady
    /\ generateCalls < MaxGenerate
    /\ generateCalls' = generateCalls + 1
    /\ isGenerating' = TRUE
    /\ generating' = TRUE
    /\ currentImageUrl' = ""
    /\ analyses' = Append(analyses, [data |-> "undefined"])
    /\ isAnalyzing' = TRUE
    /\ currentAnalysis' = "analyzing"
    /\ UNCHANGED <<variant, cartVars, netVars, klVars, saveMessage, saving, saveTimers>>

\* the request of generateImage settles: with data setImageUrl(imageUrl)
\* runs the callback up to the await in analyzeImage; then finally
GenerateImageSettlesOf(outcome) ==
    /\ variant = "inspector"
    /\ generating
    /\ generating' = FALSE
    /\ isGenerating' = FALSE
    /\ IF outcome = "data"
       THEN /\ currentImageUrl' = "url"
            /\ analyses' = Append(analyses, [data |-> "base64"])
            /\ isAnalyzing' = TRUE
            /\ currentAnalysis' = "analyzing"
       ELSE UNCHANGED <<currentImageUrl, analyses, isAnalyzing, currentAnalysis>>
    /\ UNCHANGED <<variant, cartVars, netVars, klVars, saveMessage, saving, saveTimers,
                   generateCalls>>

GenerateImageSettles == \E outcome \in GenerateOutcomes : GenerateImageSettlesOf(outcome)

\* the request of the k-th pending analyzeImage call settles; then finally
AnalyzeImageSettlesOf(k, outcome) ==
    /\ variant = "inspector"
    /\ k \in DOMAIN analyses
    /\ analyses' = [j \in 1 .. (Len(analyses) - 1) |->
                        IF j < k THEN analyses[j] ELSE analyses[j + 1]]
    /\ currentAnalysis' = CASE outcome = "text" -> "text"
                             [] outcome = "noText" -> "noText"
                             [] outcome = "throws" -> "error"
    /\ isAnalyzing' = FALSE
    /\ UNCHANGED <<variant, cartVars, netVars, klVars, isGenerating, currentImageUrl,
                   saveMessage, generating, saving, saveTimers, generateCalls>>

AnalyzeImageSettles ==
    \E k \in DOMAIN analyses, outcome \in AnalyzeOutcomes : AnalyzeImageSettlesOf(k, outcome)

\* saveArtifact (the button is disabled unless currentImageUrl and isReady),
\* up to the await of addDoc; db and userId are props, present or not
OnSaveArtifact ==
    /\ variant = "inspector"
    /\ currentImageUrl # ""
    /\ isReady
    /\ saving + saveTimers < MaxSaves
    /\ \E propsSet \in BOOLEAN :
          IF ~propsSet \/ currentAnalysis = ""
          THEN saveMessage' = "missing" /\ UNCHANGED saving
          ELSE saveMessage' = "saving" /\ saving' = saving + 1
    /\ UNCHANGED <<variant, cartVars, netVars, klVars, isGenerating, isAnalyzing,
                   currentImageUrl, currentAnalysis, generating, analyses, saveTimers,
                   generateCalls>>

\* addDoc settles: the message, and finally the 3 s timer
AddDocSettles ==
    /\ variant = "inspector"
    /\ saving > 0
    /\ saveMessage' \in {"saved", "failed"}
    /\ saving' = saving - 1
    /\ saveTimers' = saveTimers + 1
    /\ UNCHANGED <<variant, cartVars, netVars, klVars, isGenerating, isAnalyzing,
                   currentImageUrl, currentAnalysis, generating, analyses, generateCalls>>

\* setTimeout(() => setSaveMessage(''), 3000) fires
SaveMessageTimer ==
    /\ variant = "inspector"
    /\ saveTimers > 0
    /\ saveMessage' = ""
    /\ saveTimers' = saveTimers - 1
    /\ UNCHANGED <<variant, cartVars, netVars, klVars, isGenerating, isAnalyzing,
                   currentImageUrl, currentAnalysis, generating, analyses, saving,
                   generateCalls>>

\* ------------------------------------- src/src/App.tsx newsletter form
\* onChange of the email input (disabled while klaviyoStatus is 'loading')
OnEmailChange ==
    /\ variant = "klaviyo"
    /\ klaviyoStatus # "loading"
    /\ email' = "typed"
    /\ UNCHANGED <<variant, cartVars, netVars, aiVars,
                   klaviyoStatus, submissions, resetTimers, submits>>

\* handleKlaviyoSubmit, past `if (!email || klaviyoStatus === 'loading')
\* return`, up to the await of the mock call
OnHandleKlaviyoSubmit ==
    /\ variant = "klaviyo"
    /\ email # ""
    /\ klaviyoStatus # "loading"
    /\ submits < MaxSubmits
    /\ submits' = submits + 1
    /\ klaviyoStatus' = "loading"
    /\ submissions' = submissions + 1
    /\ UNCHANGED <<variant, cartVars, netVars, aiVars, email, resetTimers>>

\* the 1.5 s of the mock call are over: mockSuccess is true; then the 5 s
\* timer is set
MockCallDone ==
    /\ variant = "klaviyo"
    /\ submissions > 0
    /\ submissions' = submissions - 1
    /\ klaviyoStatus' = "success"
    /\ email' = ""
    /\ resetTimers' = resetTimers + 1
    /\ UNCHANGED <<variant, cartVars, netVars, aiVars, submits>>

\* setTimeout(() => setKlaviyoStatus('idle'), 5000) fires
ResetTimerFires ==
    /\ variant = "klaviyo"
    /\ resetTimers > 0
    /\ resetTimers' = resetTimers - 1
    /\ klaviyoStatus' = "idle"
    /\ UNCHANGED <<variant, cartVars, netVars, aiVars, email, submissions, submits>>

Next ==
    \/ OnAddToCart
    \/ OnRemoveItem
    \/ OnUpdateQuantity
    \/ OnHandlePurchase
    \/ AuthEffect
    \/ AuthStateChanged
    \/ CartListenerEffect
    \/ OnSnapshot
    \/ OnSnapshotError
    \/ OnAddProductToCart
    \/ OnUpdateCartItemQuantity
    \/ OnRemoveProductFromCart
    \/ OnHandleCheckout
    \/ SetDocAck
    \/ SetDocReject
    \/ OtherTabWrite
    \/ OnAddToCartClicked
    \/ OnRemoveCartItem
    \/ OnQuantityChanged
    \/ OnPurchaseClicked
    \/ CallFetchWithRetry
    \/ FetchWithRetryAttempt
    \/ FetchWithRetryTimer
    \/ CallExponentialBackoffFetch
    \/ ExponentialBackoffAttempt
    \/ ExponentialBackoffTimer
    \/ OnHandleGenerate
    \/ GenerateImageSettles
    \/ AnalyzeImageSettles
    \/ OnSaveArtifact
    \/ AddDocSettles
    \/ SaveMessageTimer
    \/ OnEmailChange
    \/ OnHandleKlaviyoSubmit
    \/ MockCallDone
    \/ ResetTimerFires

Spec == Init /\ [][Next]_vars

\* The event loop runs an effect whose dependencies changed and delivers a
\* queued snapshot event to the listener's callback.
\* The mount effect runs, the auth state callback arrives, and Firestore
\* answers the listener of the placeholder user with its error callback.
\* A pending fetch settles and a timer that was set fires.
LiveSpec ==
    /\ Spec
    /\ WF_vars(AuthEffect)
    /\ WF_vars(AuthStateChanged)
    /\ WF_vars(CartListenerEffect)
    /\ WF_vars(OnSnapshot)
    /\ WF_vars(OnSnapshotError /\ userId = "uuid")
    /\ WF_vars(FetchWithRetryAttempt)
    /\ WF_vars(FetchWithRetryTimer)
    /\ WF_vars(ExponentialBackoffAttempt)
    /\ WF_vars(ExponentialBackoffTimer)

\* ---------------------------------------------- vocabulary of the properties
HasLine(items, id) == \E i \in DOMAIN items : items[i].id = id
IdSeq(items) == [i \in DOMAIN items |-> items[i].id]
Without(ids, id) == SelectSeq(ids, LAMBDA x : x # id)
LastOf(seq) == seq[Len(seq)]
\* the line list a handler of AppProvider read
Read == CartOrDefault(currentCart).items
\* the sum of the quantities, from the last line to the first
RECURSIVE ItemCount(_)
ItemCount(items) ==
    IF Len(items) = 0 THEN 0
    ELSE items[Len(items)].quantity + ItemCount(SubSeq(items, 1, Len(items) - 1))

\* --------------------------------------------------------------------- C1
AddItemRel(before, after, product) ==
    IF HasLine(before, product.id)
    THEN /\ Len(after) = Len(before)
         /\ \A i \in DOMAIN before :
               /\ after[i].id = before[i].id
               /\ after[i].price = before[i].price
               /\ after[i].quantity =
                     before[i].quantity + (IF before[i].id = product.id THEN 1 ELSE 0)
    ELSE /\ Len(after) = Len(before) + 1
         /\ \A i \in DOMAIN before : after[i] = before[i]
         /\ after[Len(after)] =
               [id |-> product.id, price |-> product.price, quantity |-> 1]

\* C1: addToCart (src/App.tsx) and addProductToCart (part_004): a line with
\* the product's id grows by exactly 1 and no line is added; otherwise one
\* line with quantity 1 is appended at the end; every other line keeps its
\* quantity and its place.
C1_AddItem ==
    [][ /\ \A product \in PRODUCTS :
              AddToCartOf(product) => AddItemRel(cart, cart', product)
        /\ \A product \in FsProducts :
              AddProductToCartOf(product) /\ pending' # pending
                  => AddItemRel(Read, LastOf(pending').items, product) ]_vars

\* two addProductToCart calls of one product, the second on the line the
\* first one made: the write in flight holds that line with quantity 2
C1_Witness ==
    /\ variant = "fs"
    /\ lastOp = "add"
    /\ burst.k = 2
    /\ pending # <<>>
    /\ \E i \in DOMAIN LastOf(pending).items :
          /\ LastOf(pending).items[i].id = burst.id
          /\ LastOf(pending).items[i].quantity = 2

\* --------------------------------------------------------------------- C2
ChangeQuantityRel(before, after, productId, delta) ==
    \A i \in DOMAIN before :
        before[i].id = productId =>
            IF before[i].quantity + delta <= 0
            THEN ~HasLine(after, productId)
            ELSE /\ HasLine(after, productId)
                 /\ \A j \in DOMAIN after :
                       after[j].id = productId =>
                           after[j].quantity = before[i].quantity + delta

\* C2: updateQuantity (src/App.tsx) and updateCartItemQuantity (part_004):
\* when q + delta <= 0 the result has no line for the product, never a line
\* with quantity 0 or less; when q + delta > 0 the line stays with q + delta.
C2_ChangeQuantityDrops ==
    [][ /\ \A productId \in ProductIds, delta \in {1, -1} :
              UpdateQuantityOf(productId, delta)
                  => ChangeQuantityRel(cart, cart', productId, delta)
        /\ \A productId \in FsProductIds, delta \in Deltas :
              UpdateCartItemQuantityOf(productId, delta) /\ pending' # pending
                  => ChangeQuantityRel(Read, LastOf(pending').items, productId, delta) ]_vars

\* updateCartItemQuantity has written a line list without a product that the
\* cart on screen holds with quantity 2 (delta = -q, q = 2)
C2_Witness ==
    /\ variant = "fs"
    /\ lastOp = "update"
    /\ pending # <<>>
    /\ snaps = <<CartDoc(LastOf(pending))>>
    /\ \E i \in DOMAIN Read :
          /\ Read[i].quantity = 2
          /\ ~HasLine(LastOf(pending).items, Read[i].id)

\* --------------------------------------------------------------------- C3
ChangeQuantityFrame(before, after, productId) ==
    /\ ~HasLine(before, productId) => after = before
    /\ SelectSeq(after, LAMBDA item : item.id # productId)
          = SelectSeq(before, LAMBDA item : item.id # productId)
    /\ IdSeq(after) \in {IdSeq(before), Without(IdSeq(before), productId)}

\* C3: changeQuantity with an id that matches no line gives the same lines,
\* quantities and order; when a line matches, every other line is kept and
\* the order of the remaining lines is the order they had.
C3_ChangeQuantityFrame ==
    [][ /\ \A productId \in ProductIds, delta \in {1, -1} :
              UpdateQuantityOf(productId, delta)
                  => ChangeQuantityFrame(cart, cart', productId)
        /\ \A productId \in FsProductIds, delta \in Deltas :
              UpdateCartItemQuantityOf(productId, delta)
                  => /\ currentCart' = currentCart
                     /\ pending' # pending
                            => ChangeQuantityFrame(Read, LastOf(pending').items, productId) ]_vars

\* updateQuantity has run on a cart of two lines and both are still there,
\* one of them with quantity 2
C3_Witness ==
    /\ variant = "app"
    /\ lastOp = "update"
    /\ Len(cart) = 2
    /\ \E i \in DOMAIN cart : cart[i].quantity = 2

\* --------------------------------------------------------------------- C4
\* the lines of `before` without those of productId, by position
RemoveItemRel(before, after, productId) ==
    LET keep == {i \in DOMAIN before : before[i].id # productId}
    IN  /\ Len(after) = Cardinality(keep)
        /\ \A i \in keep : after[Cardinality({j \in keep : j <= i})] = before[i]

\* C4: removeItem (src/App.tsx) and removeProductFromCart (part_004): the
\* line with the id is deleted whatever its quantity, the other lines are
\* kept in order, and without such a line the cart is unchanged.
C4_RemoveItem ==
    [][ /\ \A productId \in ProductIds :
              RemoveItemOf(productId) => RemoveItemRel(cart, cart', productId)
        /\ \A productId \in FsProductIds :
              RemoveProductFromCartOf(productId)
                  => /\ currentCart' = currentCart
                     /\ pending' # pending
                            => RemoveItemRel(Read, LastOf(pending').items, productId) ]_vars

\* removeProductFromCart has written a line list without a product that the
\* cart on screen holds with quantity 2
C4_Witness ==
    /\ variant = "fs"
    /\ lastOp = "remove"
    /\ pending # <<>>
    /\ snaps = <<CartDoc(LastOf(pending))>>
    /\ \E i \in DOMAIN Read :
          /\ Read[i].quantity = 2
          /\ ~HasLine(LastOf(pending).items, Read[i].id)

\* --------------------------------------------------------------------- C5
\* the sum of quantity * price, from the last line to the first
RECURSIVE SubtotalOf(_)
SubtotalOf(items) ==
    IF Len(items) = 0 THEN 0
    ELSE items[Len(items)].price * items[Len(items)].quantity
            + SubtotalOf(SubSeq(items, 1, Len(items) - 1))

\* the cart on screen was made by the snapshot callback
FromSnapshot == variant = "fs" /\ listener = "listening" /\ currentCart # NULL

\* product A (10.00) and product B (20.00), one each
ScenarioAB ==
    << [id |-> 1, price |-> 1000, quantity |-> 1],
       [id |-> 2, price |-> 2000, quantity |-> 1] >>

AppTotalsRule(c) ==
    /\ AppSubtotal(c) = SubtotalOf(c)
    /\ AppTotalItems(c) = ItemCount(c)
    /\ AppTax(c) = SubtotalOf(c) * TaxRateNum
    /\ AppTotal(c) = SubtotalOf(c) * TaxRateDen + SubtotalOf(c) * TaxRateNum

\* C5 as amended: src/App.tsx derives subtotal = sum of quantity * price,
\* itemCount = sum of quantities, tax = subtotal * 0.15 and total = subtotal
\* + tax (10.00 and 20.00 give 30.00, 4.50, 34.50).  The snapshot listener of
\* part_004 derives the same subtotal, but no tax and no itemCount: shipping
\* is 0 when subtotal > 1000.00 and 50.00 otherwise, and total = subtotal +
\* shipping (10.00 and 20.00 give 30.00, 50.00, 80.00).
C5_Totals ==
    /\ variant = "app" => AppTotalsRule(cart)
    /\ FromSnapshot =>
          /\ currentCart.subtotal = SubtotalOf(currentCart.items)
          /\ currentCart.shipping =
                (IF currentCart.subtotal > 100000 THEN 0 ELSE 5000)
          /\ currentCart.total = currentCart.subtotal + currentCart.shipping
    /\ AppSubtotal(ScenarioAB) = 3000
    /\ AppTotalItems(ScenarioAB) = 2
    /\ AppTax(ScenarioAB) = 450 * TaxRateDen
    /\ AppTotal(ScenarioAB) = 3450 * TaxRateDen
    /\ SnapshotCart(CartDoc(NewCart(ScenarioAB))).subtotal = 3000
    /\ SnapshotCart(CartDoc(NewCart(ScenarioAB))).shipping = 5000
    /\ SnapshotCart(CartDoc(NewCart(ScenarioAB))).total = 8000

\* the snapshot callback has derived the totals of a cart over 1000.00
C5_Witness ==
    /\ FromSnapshot
    /\ currentCart.items # <<>>
    /\ currentCart.subtotal > FreeShippingOver
    /\ currentCart.shipping = 0

\* C5 as stated: in both carts total = subtotal + subtotal * taxRate
C5_Original ==
    /\ variant = "app" => AppTotalsRule(cart)
    /\ FromSnapshot =>
          /\ currentCart.subtotal = SubtotalOf(currentCart.items)
          /\ currentCart.total * TaxRateDen
                = currentCart.subtotal * TaxRateDen + currentCart.subtotal * TaxRateNum

\* --------------------------------------------------------------------- C6
UniqueIds(items) ==
    \A i, j \in DOMAIN items : i # j => items[i].id # items[j].id

\* C6: the cart holds at most one line per product identifier, in memory
\* (cart, currentCart, the rows of the page) and in what is written, stored
\* and pushed back.
C6_UniqueLines ==
    /\ UniqueIds(cart)
    /\ currentCart # NULL => UniqueIds(currentCart.items)
    /\ \A i \in DOMAIN pending : UniqueIds(pending[i].items)
    /\ \A i \in DOMAIN snaps : UniqueIds(snaps[i].cart.items)
    /\ UniqueIds(stored.cart.items)
    /\ \A i, j \in DOMAIN rows : i # j => rows[i].title # rows[j].title

\* after a write of another tab and two addProductToCart calls the snapshot
\* callback has set a cart of two lines
C6_Witness ==
    /\ FromSnapshot
    /\ otherTab = 1
    /\ calls = 2
    /\ burst.k = 2
    /\ Len(currentCart.items) = 2

\* --------------------------------------------------------------------- C7
PositiveQuantities(items) == \A i \in DOMAIN items : items[i].quantity >= 1

\* C7: every line of the cart has an integer quantity >= 1, in memory and in
\* what is written to storage, also after a quantity typed into the input of
\* script.js.
C7_QuantitiesPositiveIntegers ==
    /\ PositiveQuantities(cart)
    /\ currentCart # NULL => PositiveQuantities(currentCart.items)
    /\ \A i \in DOMAIN pending : PositiveQuantities(pending[i].items)
    /\ PositiveQuantities(stored.cart.items)
    /\ \A i \in DOMAIN rows :
          /\ rows[i].value.text = "number"
          /\ rows[i].value.tenths >= 10
          /\ rows[i].value.tenths % 10 = 0

\* --------------------------------------------------------------------- C9
\* C9: after addItem(P) whose save failed, or found storage unavailable, the
\* cart on screen contains P.
C9_FailedSaveKeepsItem ==
    ( /\ variant = "fs"
      /\ Rendered
      /\ lastOp = "add"
      /\ burst.k >= 1
      /\ saveState \in {"failed", "unavailable"}
      /\ otherTab = 0
      /\ pending = <<>>
      /\ snaps = <<>> )
        => HasLine(currentCart.items, burst.id)

\* -------------------------------------------------------------------- C10
HasLineWith(items, id, quantity) ==
    \E i \in DOMAIN items : items[i].id = id /\ items[i].quantity = quantity

\* C10: k addItem calls of one product, issued back to back from the empty
\* cart, end with quantity k once every save is acknowledged and every
\* snapshot delivered.
C10_BackToBackAdds ==
    /\ (variant = "app" /\ burst.k >= 1) => HasLineWith(cart, burst.id, burst.k)
    /\ ( /\ FromSnapshot
          /\ burst.k >= 1
          /\ ~rejected
          /\ otherTab = 0
          /\ saveState = "acked"
          /\ pending = <<>>
          /\ snaps = <<>> )
            => HasLineWith(currentCart.items, burst.id, burst.k)

\* --------------------------------------------------------------------- C8
\* C8: the item count after addItem is the item count before plus exactly 1,
\* whether or not the product had a line; no quantity changes by anything
\* but +1.
C8_AddItemCountsOne ==
    [][ /\ \A product \in PRODUCTS :
              AddToCartOf(product)
                  => /\ AppTotalItems(cart') = AppTotalItems(cart) + 1
                     /\ ItemCount(cart') = ItemCount(cart) + 1
        /\ \A product \in FsProducts :
              AddProductToCartOf(product) /\ pending' # pending
                  => ItemCount(LastOf(pending').items) = ItemCount(Read) + 1 ]_vars

\* addToCart has run on a product that had a line: two lines, three items
C8_Witness ==
    /\ variant = "app"
    /\ lastOp = "add"
    /\ Len(cart) = 2
    /\ AppTotalItems(cart) = 3

\* -------------------------------------------------------------------- C11
\* the totals of the snapshot callback, from the lines of c
TotalsRecomputed(c) ==
    /\ c.subtotal = SubtotalOf(c.items)
    /\ c.shipping = (IF SubtotalOf(c.items) > FreeShippingOver THEN 0 ELSE ShippingFee)
    /\ c.total = c.subtotal + c.shipping

\* C11: the subtotal, shipping and total that go with a cart are the ones the
\* totals rule gives for its lines: for the cart on screen (also the default
\* cart of the listener error and of the missing user) and for the carts
\* written to storage.
C11_TotalsRecomputed ==
    /\ variant = "app" => AppTotalsRule(cart)
    /\ (variant = "fs" /\ currentCart # NULL) => TotalsRecomputed(currentCart)
    /\ \A i \in DOMAIN pending : pending[i].subtotal = SubtotalOf(pending[i].items)
    /\ stored.exists => stored.cart.subtotal = SubtotalOf(stored.cart.items)

\* -------------------------------------------------------------------- C12
\* the write of one handler call: a new last element of pending
Wrote == Len(pending') = Len(pending) + 1 /\ SubSeq(pending', 1, Len(pending)) = pending

\* the handler's save reaches setDoc
Ready == db /\ userId # "null"

\* what a handler call does to storage: one write of the complete new line
\* list when the database and the user are there, nothing otherwise
SavesList(ok) ==
    IF Ready
    THEN Wrote /\ ok
    ELSE UNCHANGED <<pending, stored>> /\ saveState' = "unavailable"

\* C12 as amended: every handler of part_004 that changes the line list
\* calls saveCartToFirestore with the complete new list; the list is written
\* (setDoc) when db and userId are set, and nothing is written otherwise.
C12_SaveAfterMutation ==
    [][ /\ \A product \in FsProducts :
              AddProductToCartOf(product)
                  => SavesList(AddItemRel(Read, LastOf(pending').items, product))
        /\ \A productId \in FsProductIds, delta \in Deltas :
              UpdateCartItemQuantityOf(productId, delta)
                  => SavesList(/\ ChangeQuantityRel(Read, LastOf(pending').items, productId, delta)
                               /\ ChangeQuantityFrame(Read, LastOf(pending').items, productId))
        /\ \A productId \in FsProductIds :
              RemoveProductFromCartOf(productId)
                  => SavesList(RemoveItemRel(Read, LastOf(pending').items, productId))
        /\ (OnHandleCheckout /\ Read # <<>>)
                  => SavesList(LastOf(pending').items = <<>>) ]_vars

\* handleCheckout has written the empty list while the cart on screen still
\* shows its lines
C12_Witness ==
    /\ variant = "fs"
    /\ lastOp = "checkout"
    /\ Read # <<>>
    /\ pending # <<>>
    /\ LastOf(pending).items = <<>>
    /\ saveState = "pending"

\* C12 as stated: every handler call that changes the line list writes it to
\* storage.
C12_Original ==
    [][ /\ (OnAddProductToCart \/ OnUpdateCartItemQuantity \/ OnRemoveProductFromCart)
              => Wrote
        /\ (OnHandleCheckout /\ Read # <<>>) => Wrote ]_vars

\* -------------------------------------------------------------------- C13
\* C13: a checkout of a cart with lines leaves zero lines (part_004: writes
\* the empty list); a checkout of the empty cart is turned down with a
\* message and changes neither the cart nor storage.
C13_Checkout ==
    [][ /\ OnHandlePurchase =>
              IF cart = <<>>
              THEN cart' = cart /\ purchaseMessage' = "empty"
              ELSE cart' = <<>> /\ purchaseMessage' = "success"
        /\ OnHandleCheckout =>
              IF Read = <<>>
              THEN /\ message' = "empty" /\ success' = FALSE
                   /\ UNCHANGED <<currentCart, stored, pending>>
              ELSE SavesList(LastOf(pending').items = <<>>)
        /\ OnPurchaseClicked =>
              IF rows = <<>>
              THEN rows' = rows /\ customMessage' # "purchaseComplete"
              ELSE rows' = <<>> /\ customMessage' = "purchaseComplete" ]_vars

\* -------------------------------------------------------------------- C14
PriceOf(products, id) == (CHOOSE p \in products : p.id = id).price

\* the cart after n addItem calls and m changeQuantity(id, -1) calls
ScenarioCart(items, products) ==
    /\ ItemCount(items) = scenario.n - scenario.m
    /\ SubtotalOf(items) = (scenario.n - scenario.m) * PriceOf(products, scenario.id)
    /\ IF scenario.n = scenario.m
       THEN Len(items) = 0
       ELSE /\ Len(items) = 1
            /\ items[1].id = scenario.id
            /\ items[1].quantity = scenario.n - scenario.m

C15_RemoveIdempotent ==
    [][ /\ \A productId \in ProductIds :
              RemoveItemOf(productId) => removeItem(cart', productId) = cart'
        /\ \A productId \in FsProductIds :
              RemoveProductFromCartOf(productId) /\ pending' # pending
                  => removeProductFromCart(LastOf(pending'), productId)
                        = LastOf(pending').items ]_vars

\* removeProductFromCart has taken one of the two lines on screen away
C15_Witness ==
    /\ variant = "fs"
    /\ lastOp = "remove"
    /\ pending # <<>>
    /\ Len(Read) = 2
    /\ Len(LastOf(pending).items) = 1

\* -------------------------------------------------------------------- C16
\* C16: a save that fails is reported on the page (setMessage, success
\* false), both when setDoc rejects and when the handler finds db or userId
\* not set.
C16_FailedSaveSurfaced ==
    [][ /\ SetDocReject => (message' = "saveError" /\ success' = FALSE)
        /\ ( /\ \/ OnAddProductToCart
                \/ OnUpdateCartItemQuantity
                \/ OnRemoveProductFromCart
             /\ ~Ready )
              => (message' = "saveError" /\ success' = FALSE) ]_vars

\* -------------------------------------------------------------------- C17
\* C17: a write is reported as failed only after it was tried again.
C17_RetriedBeforeReported ==
    [][ (SetDocReject /\ message' = "saveError") => SetDocAttempts > 1 ]_vars

\* -------------------------------------------------------------------- C18
\* C18: a save writes the complete line list (every line the handler read is
\* in it), and the acknowledged write replaces the stored cart as a whole,
\* oldest write first: when two saves overlap the stored list ends as the
\* list of the later one, never as lines of both.
C18_LastWriteWins ==
    [][ /\ \A product \in FsProducts :
              (AddProductToCartOf(product) /\ Wrote)
                  => SubSeq(IdSeq(LastOf(pending').items), 1, Len(Read)) = IdSeq(Read)
        /\ SetDocAck =>
              /\ stored' = CartDoc(Head(pending))
              /\ pending' = Tail(pending)
              /\ Len(pending) = 1 => stored'.cart.items = LastOf(pending).items ]_vars

\* handleCheckout was called while the write of addProductToCart was not yet
\* acknowledged; both are acknowledged now and the stored list is the empty
\* list of the checkout
C18_Witness ==
    /\ variant = "fs"
    /\ overlap
    /\ lastOp = "checkout"
    /\ message = "checkout"
    /\ calls = 2
    /\ saveState = "acked"
    /\ pending = <<>>
    /\ stored = CartDoc(NewCart(<<>>))

\* -------------------------------------------------------------------- C19
\* the (product id, quantity) pairs of a line list
Lines(items) == {<<items[i].id, items[i].quantity>> : i \in DOMAIN items}

ViewItems == View(stored, pending).cart.items

\* C20: the first snapshot sets the stored cart, the empty cart when there is
\* no document; once every queued event is delivered the cart in memory has
\* the line list of the document, also after another tab changed it; and a
\* subscribed listener of a signed-in user gets there (or its error callback
\* runs).
C20_LoadAndPush ==
    /\ [][ OnSnapshot =>
              /\ currentCart'.items = Head(snaps).cart.items
              /\ ~Head(snaps).exists => currentCart'.items = <<>> ]_vars
    /\ []( (FromSnapshot /\ snaps = <<>>) =>
              /\ currentCart.items = ViewItems
              /\ pending = <<>> => currentCart.items = stored.cart.items
              /\ ~View(stored, pending).exists => currentCart.items = <<>> )
    /\ ( (variant = "fs" /\ listener = "listening" /\ userId = "uid")
            ~> ( \/ listener # "listening"
                 \/ /\ currentCart # NULL
                    /\ snaps = <<>>
                    /\ currentCart.items = ViewItems ) )

\* another tab has written a cart with a line and this tab, which made no call
\* of its own, shows it
C20_Witness ==
    /\ FromSnapshot
    /\ otherTab = 1
    /\ calls = 0
    /\ snaps = <<>>
    /\ pending = <<>>
    /\ stored.exists
    /\ currentCart.items # <<>>
    /\ currentCart.items = stored.cart.items

\* -------------------------------------------------------------------- C21
\* the cart of one addItem call on the empty cart
SingleAdd(product) == <<[id |-> product.id, price |-> product.price, quantity |-> 1]>>

C26_ApiErrorNotRetried ==
    [][ \A outcome \in FetchOutcomes, jitter \in JitterMs :
            ExponentialBackoffAttemptOf(outcome, jitter) =>
                IF outcome.kind = "response" /\ outcome.status \in 200 .. 299
                THEN fetchPc' = "returned"
                ELSE IF /\ outcome.kind = "response"
                        /\ outcome.status # 429
                        /\ outcome.status < 500
                THEN fetchPc' = "threw"
                ELSE fetchPc' = (IF loopI < retries - 1 THEN "waiting" ELSE "threw") ]_vars

\* -------------------------------------------------------------------- C27
\* C27: fetchWithRetry with retries >= 1 makes at most `retries` fetch calls
\* and ends: it returns a response, or it rethrows the rejection of the last
\* of exactly `retries` attempts; a response returned before the last attempt
\* has a status below 500.
C27_FetchWithRetryTerminates ==
    /\ []( (variant = "retry" /\ retries >= 1) =>
              /\ attempts <= retries
              /\ fetchPc = "returned" =>
                    /\ attempts >= 1
                    /\ attempts < retries => response < 500
              /\ fetchPc = "threw" => (thrown = "attempt" /\ attempts = retries) )
    /\ ( (variant = "retry" /\ fetchPc \in {"fetching", "waiting"})
            ~> (fetchPc \in {"returned", "threw"}) )

\* the third of three attempts gave a 503, which is returned
C27_Witness ==
    /\ variant = "retry"
    /\ fetchPc = "returned"
    /\ retries = 3
    /\ attempts = 3
    /\ waited = 2
    /\ response = 503

\* -------------------------------------------------------------------- C28
\* C28: exponentialBackoffFetch returns only ok responses, makes at most
\* maxRetries attempts, does not wait after the last one, and throws after
\* exactly maxRetries attempts when none gave an ok response.
C28_BackoffBounded ==
    /\ []( (variant = "backoff" /\ retries >= 1) =>
              /\ attempts <= retries
              /\ waited <= retries - 1
              /\ waited <= attempts
              /\ fetchPc = "returned" => response \in 200 .. 299
              /\ fetchPc = "threw" =>
                    /\ attempts = retries
                    /\ waited = retries - 1
                    /\ thrown = "afterRetries" )
    /\ [][ \A outcome \in FetchOutcomes, jitter \in JitterMs :
              (ExponentialBackoffAttemptOf(outcome, jitter) /\ attempts' = retries)
                  => (fetchPc' # "waiting" /\ waited' = waited) ]_vars

\* three attempts without an ok response, two waits, then the throw
C28_Witness ==
    /\ variant = "backoff"
    /\ fetchPc = "threw"
    /\ retries = 3
    /\ attempts = 3
    /\ waited = 2

\* -------------------------------------------------------------------- C30
\* an attempt that ends in a wait whose delay is not 2^i seconds
JitteredWait ==
    /\ FetchWithRetryAttempt \/ ExponentialBackoffAttempt
    /\ fetchPc' = "waiting"
    /\ delay' # (2 ^ loopI) * 1000

\* a call that is about to wait if its attempt fails
BeforeWait == fetchPc = "fetching" /\ loopI < retries - 1

C23_AnalyzeAfterImage ==
    [][ /\ OnHandleGenerate => analyses' = analyses
        /\ \A outcome \in GenerateOutcomes :
              GenerateImageSettlesOf(outcome) =>
                  analyses' = (IF outcome = "data"
                               THEN Append(analyses, [data |-> "base64"])
                               ELSE analyses) ]_vars

\* -------------------------------------------------------------------- C24
\* C24: on every initialization path AppProvider eventually has isAuthReady
\* true and a cart that is not null.
C24_LeavesLoading == (variant = "fs") ~> Rendered

\* -------------------------------------------------------------------- C25
\* C25: while a request started by handleGenerate is pending, isReady is
\* false.
C25_NotReadyWhilePending ==
    (variant = "inspector" /\ (generating \/ analyses # <<>>)) => ~isReady

\* -------------------------------------------------------------------- C29
\* C29: at most one newsletter submission is in flight, and while one is
\* pending klaviyoStatus is 'loading'.
C29_OneSubmission ==
    variant = "klaviyo" =>
        /\ submissions <= 1
        /\ submissions > 0 => klaviyoStatus = "loading"

====
